---------------------------- MODULE Spec2Model ----------------------------
(***************************************************************************)
(* A model of bin/named_entity_recognition.py: one linear run that loads   *)
(* a letter (XML), extracts the transcription, normalizes it, annotates it *)
(* with named entities and exports the result (JSON mapping, HTML file).   *)
(*                                                                         *)
(* Strings are sequences of one-character strings, so that substring       *)
(* search, replacement and escaping are computed character by character.   *)
(***************************************************************************)
EXTENDS Integers, Sequences, FiniteSets, TLC

VARIABLES
    pc,             \* the statement the run is at ("done", "fault" at the end)
    disk,           \* the state of ../data/henslow/letters_152.xml
    letter,         \* the parsed tree (BeautifulSoup object), document order
    transcription,  \* the variable `transcription`
    extracted,      \* history: the value line 147 assigned to `transcription`
    document,       \* the spaCy Doc: text, ents, user_data title
    doc_dict,       \* the variable `doc_dict`
    ents_dict,      \* the variable `ents_dict`
    dumped,         \* the value of json.dumps(ents_dict)
    html,           \* the variable `html`
    output_file,    \* the content of ../results/ent_viz.html
    before,         \* history: the content of the output file when the run began
    writes,         \* history: how often the output file was opened for writing
    steps           \* history: the statements completed so far, in order

vars == <<pc, disk, letter, transcription, extracted, document, doc_dict,
          ents_dict, dumped, html, output_file, before, writes, steps>>

-----------------------------------------------------------------------------
(* Bounds of the model *)

MaxLen == 4         \* longest raw string drawn for the normalizer
MaxTreeNodes == 5   \* most nodes of a tree drawn for the extractor
MaxNodes == 3       \* most nodes of a letter drawn for a whole run
MaxEnts == 2        \* most entity spans the annotator returns

-----------------------------------------------------------------------------
(* Strings *)

Char == {"&", " ", "a", "<"}

RECURSIVE StringsOfLen(_)
StringsOfLen(n) ==
    IF n = 0 THEN {<<>>}
    ELSE {<<c>> \o s : c \in Char, s \in StringsOfLen(n - 1)}

Strings(n) == UNION {StringsOfLen(k) : k \in 0..n}

\* s[i..] starts with p (i is 1-based)
StartsWith(s, p, i) ==
    /\ i + Len(p) - 1 <= Len(s)
    /\ p = <<>> \/ (s[i] = p[1] /\ SubSeq(s, i, i + Len(p) - 1) = p)

\* p occurs in s
Contains(s, p) ==
    \/ p = <<>>
    \/ \E q \in {p} : \E i \in 1..(Len(s) - Len(q) + 1) :
          s[i] = q[1] /\ SubSeq(s, i, i + Len(q) - 1) = q

\* the number of (possibly overlapping) occurrences of p in s
Count(s, p) == Cardinality({i \in 1..(Len(s) + 1) : StartsWith(s, p, i)})

\* str.replace(old, new), old non-empty: the occurrences of old are found
\* from the left, each search resuming after the previous occurrence.
RECURSIVE ReplaceFrom(_, _, _, _)
ReplaceFrom(s, old, new, i) ==
    IF i > Len(s) THEN <<>>
    ELSE IF StartsWith(s, old, i)
         THEN new \o ReplaceFrom(s, old, new, i + Len(old))
         ELSE <<s[i]>> \o ReplaceFrom(s, old, new, i + 1)

replace(s, old, new) == ReplaceFrom(s, old, new, 1)

Amp == <<"&", " ">>
And == <<"a", "n", "d", " ">>

\* replace(old, new, 1): only the first occurrence is replaced
ReplaceFirst(s, old, new) ==
    IF Contains(s, old)
    THEN LET i == CHOOSE k \in 1..Len(s) :
                      StartsWith(s, old, k) /\ \A j \in 1..(k - 1) : ~StartsWith(s, old, j)
         IN  SubSeq(s, 1, i - 1) \o new \o SubSeq(s, i + Len(old), Len(s))
    ELSE s

normalize_first(s) == ReplaceFirst(s, Amp, And)
normalize_unassigned(s) == s
normalize_nospace(s) == replace(s, Amp, <<"a", "n", "d">>)

\* the pattern without its space: every ampersand is replaced
normalize_amp(s) == replace(s, <<"&">>, <<"a", "n", "d">>)

\* line 169: transcription.replace("& ", "and ")
normalize(s) == replace(s, Amp, And)

\* the sample sentence of the testable properties
Sample == <<"I", " ", "h", "a", "v", "e", " ", "&", " ",
            "y", "o", "u", " ", "h", "a", "v", "e">>
SampleNormalized == <<"I", " ", "h", "a", "v", "e", " ", "a", "n", "d", " ",
                      "y", "o", "u", " ", "h", "a", "v", "e">>

-----------------------------------------------------------------------------
(* The parsed letter.  A tree is the sequence of its nodes in document     *)
(* order; each node carries its depth, so the descendants of node i are    *)
(* the nodes that follow it for as long as their depth exceeds depth(i).   *)
(* A "tag" node is an element (type: the value of its attribute `type`,    *)
(* "" when it has none); "text" and "comment" nodes are leaves.            *)

TextPool == {<<"<", "&">>, <<"&", " ">>}

Tag(d, ty) == [kind |-> "tag", depth |-> d, type |-> ty, string |-> <<>>]
Text(d, s) == [kind |-> "text", depth |-> d, type |-> "", string |-> s]
Comment(d, s) == [kind |-> "comment", depth |-> d, type |-> "", string |-> s]

\* the nodes there are, at depth 0
Nodes ==
    {Tag(0, ty) : ty \in {"transcription", "other"}}
        \cup {Text(0, s) : s \in TextPool}
        \cup {Comment(0, <<"a">>)}

\* the depths of n nodes in document order: one root, and a node lies at
\* most one level below the node before it
Shapes(n) ==
    {d \in [1..n -> 0..(n - 1)] :
        /\ d[1] = 0
        /\ \A i \in 2..n : d[i] >= 1 /\ d[i] <= d[i - 1] + 1}

\* the trees of n nodes: the root is an element, and so is every node that
\* has children
TreesOfSize(n) ==
    {[i \in 1..n |-> [dk[2][i] EXCEPT !.depth = dk[1][i]]] :
        dk \in {x \in Shapes(n) \X [1..n -> Nodes] :
                  /\ x[2][1].kind = "tag"
                  /\ \A i \in 1..(n - 1) :
                        x[1][i + 1] > x[1][i] => x[2][i].kind = "tag"}}

\* the one-element letter <div type="transcription">s</div>
FlatLetter(s) == <<Tag(0, "transcription"), Text(1, s)>>

\* the last node of the subtree of node i
LastDescendant(t, i) ==
    CHOOSE j \in i..Len(t) :
        /\ \A k \in (i + 1)..j : t[k].depth > t[i].depth
        /\ j = Len(t) \/ t[j + 1].depth <= t[i].depth

\* find(type="transcription"): the first element in document order whose
\* attribute `type` is "transcription"; 0 stands for None
find(t, value) ==
    LET hits == {i \in 1..Len(t) : t[i].kind = "tag" /\ t[i].type = value}
    IN  IF hits = {} THEN 0
        ELSE CHOOSE i \in hits : \A j \in hits : i <= j

\* .text of node i: the strings of the text nodes among its descendants,
\* joined in document order (comments are not part of .text)
RECURSIVE JoinStrings(_, _, _)
JoinStrings(t, from, to) ==
    IF from > to THEN <<>>
    ELSE (IF t[from].kind = "text" THEN t[from].string ELSE <<>>)
             \o JoinStrings(t, from + 1, to)

\* only the strings that are children of node i itself
text_children(t, i) ==
    LET RECURSIVE Own(_)
        Own(j) == IF j > LastDescendant(t, i) THEN <<>>
                  ELSE (IF t[j].kind = "text" /\ t[j].depth = t[i].depth + 1
                        THEN t[j].string ELSE <<>>) \o Own(j + 1)
    IN  Own(i + 1)

text(t, i) == JoinStrings(t, i + 1, LastDescendant(t, i))

-----------------------------------------------------------------------------
(* The annotated document (spaCy Doc).  A Doc holds the tokens, each with  *)
(* its text and whether a space follows it, and the entity spans; its text *)
(* is rebuilt from the tokens.  The tokenizer is modelled by its splitting *)
(* on spaces (the rules for punctuation belong to the language data).      *)

Labels == {"PERSON", "DATE"}

\* the end of the run of characters that starts at i and is all spaces
\* (sp = TRUE) or free of spaces (sp = FALSE)
RECURSIVE RunEnd(_, _, _)
RunEnd(s, i, sp) ==
    IF i < Len(s) /\ ((s[i + 1] = " ") = sp) THEN RunEnd(s, i + 1, sp) ELSE i

RECURSIVE TokensFrom(_, _)
TokensFrom(s, i) ==
    IF i > Len(s) THEN <<>>
    ELSE LET sp == s[i] = " "
             j == RunEnd(s, i, sp)
             ws == ~sp /\ j < Len(s)
         IN  <<[text |-> SubSeq(s, i, j), idx |-> i - 1, whitespace_ |-> ws]>>
                 \o TokensFrom(s, IF ws THEN j + 2 ELSE j + 1)

Tokenize(s) == TokensFrom(s, 1)

\* Doc.text: the tokens' texts, each with the space that follows it
RECURSIVE JoinTokens(_)
JoinTokens(toks) ==
    IF toks = <<>> THEN <<>>
    ELSE Head(toks).text \o (IF Head(toks).whitespace_ THEN <<" ">> ELSE <<>>)
             \o JoinTokens(Tail(toks))

DocText(doc) == JoinTokens(doc.tokens)

\* the spans over the tokens: an entity starts with a token and ends with
\* one; its offsets are character offsets into the text, the end exclusive
Spans(toks) ==
    {[start_char |-> toks[i].idx,
      end_char |-> toks[j].idx + Len(toks[j].text),
      label_ |-> l] : <<i, j>> \in {ij \in (1..Len(toks)) \X (1..Len(toks)) : ij[1] <= ij[2]},
                      l \in Labels}

\* the sequences of at most MaxEnts spans: what the model may predict
EntSeqs(toks) == UNION {[1..k -> Spans(toks)] : k \in 0..MaxEnts}

NoDoc == [tokens |-> <<>>, ents |-> <<>>, user_data |-> <<>>]

\* a sequence without the repetitions of its earlier elements
RECURSIVE Dedup(_)
Dedup(seq) ==
    IF seq = <<>> THEN <<>>
    ELSE LET init == Dedup(SubSeq(seq, 1, Len(seq) - 1))
             last == seq[Len(seq)]
         IN  IF \E i \in 1..Len(init) : init[i] = last THEN init ELSE Append(init, last)

\* to_json with the entities collected as a set: repeated spans are dropped
to_json_dedup(doc) ==
    LET ents == Dedup(doc.ents)
    IN  [text |-> DocText(doc),
         ents |-> [i \in 1..Len(ents) |->
                      [start |-> ents[i].start_char,
                       end |-> ents[i].end_char,
                       label |-> ents[i].label_]],
         tokens |-> [i \in 1..Len(doc.tokens) |->
                      [id |-> i - 1,
                       start |-> doc.tokens[i].idx,
                       end |-> doc.tokens[i].idx + Len(doc.tokens[i].text)]]]

\* Doc.to_json(): the text, the entities and the tokens as plain records
to_json(doc) ==
    [text |-> DocText(doc),
     ents |-> [i \in 1..Len(doc.ents) |->
                  [start |-> doc.ents[i].start_char,
                   end |-> doc.ents[i].end_char,
                   label |-> doc.ents[i].label_]],
     tokens |-> [i \in 1..Len(doc.tokens) |->
                  [id |-> i - 1,
                   start |-> doc.tokens[i].idx,
                   end |-> doc.tokens[i].idx + Len(doc.tokens[i].text)]]]

\* the comprehension without its condition: every key is kept
entsOnly_all(d) == d

\* line 306: {key: value for (key, value) in doc_dict.items() if key == "ents"}
entsOnly(d) == [key \in {k \in DOMAIN d : k = "ents"} |-> d[key]]

-----------------------------------------------------------------------------
(* json.dumps, character by character, with the default separators *)

Spell ==
    [ents |-> <<"e", "n", "t", "s">>,
     start |-> <<"s", "t", "a", "r", "t">>,
     end |-> <<"e", "n", "d">>,
     label |-> <<"l", "a", "b", "e", "l">>,
     PERSON |-> <<"P", "E", "R", "S", "O", "N">>,
     DATE |-> <<"D", "A", "T", "E">>]

Digit == <<"0", "1", "2", "3", "4", "5", "6", "7", "8", "9">>

RECURSIVE DumpsInt(_)
DumpsInt(n) ==
    IF n < 10 THEN <<Digit[n + 1]>>
    ELSE DumpsInt(n \div 10) \o <<Digit[(n % 10) + 1]>>

DumpsStr(str) == <<"\"">> \o Spell[str] \o <<"\"">>

Colon == <<":", " ">>
Comma == <<",", " ">>

DumpsEnt(e) ==
    <<"{">> \o DumpsStr("start") \o Colon \o DumpsInt(e.start) \o Comma
            \o DumpsStr("end") \o Colon \o DumpsInt(e.end) \o Comma
            \o DumpsStr("label") \o Colon \o DumpsStr(e.label) \o <<"}">>

RECURSIVE DumpsList(_, _)
DumpsList(list, i) ==
    IF i > Len(list) THEN <<>>
    ELSE (IF i > 1 THEN Comma ELSE <<>>) \o DumpsEnt(list[i]) \o DumpsList(list, i + 1)

\* json.dumps(ents_dict): ents_dict holds the key "ents" or nothing
dumps(d) ==
    IF "ents" \in DOMAIN d
    THEN <<"{">> \o DumpsStr("ents") \o Colon
                 \o <<"[">> \o DumpsList(d["ents"], 1) \o <<"]">> \o <<"}">>
    ELSE <<"{", "}">>

-----------------------------------------------------------------------------
(* displacy.render(document, style="ent", jupyter=False, page=True).  The  *)
(* markup of displaCy's templates is kept tag by tag, without the style    *)
(* attributes.                                                             *)

\* lines 355-357
Title ==
    <<"L", "e", "t", "t", "e", "r", " ", "f", "r", "o", "m", " ", "W", "i",
      "l", "l", "i", "a", "m", " ", "C", "h", "r", "i", "s", "t", "y", ",",
      " ", "J", "r", ".", ",", " ", "t", "o", " ", "J", "o", "h", "n", " ",
      "H", "e", "n", "s", "l", "o", "w", ",", " ", "2", "6", " ", "F", "e",
      "b", "r", "u", "a", "r", "y", " ", "1", "8", "3", "1">>

\* escape_html: & < > " are replaced, in this order
escape_html(s) ==
    replace(replace(replace(replace(s,
        <<"&">>, <<"&", "a", "m", "p", ";">>),
        <<"<">>, <<"&", "l", "t", ";">>),
        <<">">>, <<"&", "g", "t", ";">>),
        <<"\"">>, <<"&", "q", "u", "o", "t", ";">>)

\* text[a:b-1]: the last character is lost
Slice_short(s, a, b) == SubSeq(s, a + 1, b - 1)

\* text[a:b] of Python, a and b within 0..len(text)
Slice(s, a, b) == SubSeq(s, a + 1, b)

\* the text between two entities: escaped, its line breaks written </br>
Fragments(s) == replace(escape_html(s), <<"\n">>, <<"<", "/", "b", "r", ">">>)

TplEnt(entity, label) ==
    <<"\n", "<", "m", "a", "r", "k", ">", "\n">> \o entity
      \o <<"\n", "<", "s", "p", "a", "n", ">">> \o Spell[label]
      \o <<"<", "/", "s", "p", "a", "n", ">", "\n", "<", "/", "m", "a", "r", "k", ">", "\n">>

\* render_ents: each span in turn, preceded by the text since the last one
RECURSIVE RenderEnts(_, _, _, _)
RenderEnts(txt, spans, i, offset) ==
    IF i > Len(spans) THEN Fragments(Slice(txt, offset, Len(txt)))
    ELSE Fragments(Slice(txt, offset, spans[i].start))
           \o TplEnt(escape_html(Slice(txt, spans[i].start, spans[i].end)),
                     spans[i].label)
           \o RenderEnts(txt, spans, i + 1, spans[i].end)

TplTitle(t) ==
    IF t = <<>> THEN <<>>
    ELSE <<"\n", "<", "h", "2", ">">> \o t \o <<"<", "/", "h", "2", ">", "\n">>

TplPage(content) ==
    <<"<", "!", "D", "O", "C", "T", "Y", "P", "E", " ", "h", "t", "m", "l", ">", "\n",
      "<", "h", "t", "m", "l", ">", "\n", "<", "h", "e", "a", "d", ">",
      "<", "t", "i", "t", "l", "e", ">", "d", "i", "s", "p", "l", "a", "C", "y",
      "<", "/", "t", "i", "t", "l", "e", ">", "<", "/", "h", "e", "a", "d", ">", "\n",
      "<", "b", "o", "d", "y", ">", "\n", "<", "f", "i", "g", "u", "r", "e", ">", "\n">>
      \o content
      \o <<"\n", "<", "/", "f", "i", "g", "u", "r", "e", ">", "\n",
           "<", "/", "b", "o", "d", "y", ">", "\n", "<", "/", "h", "t", "m", "l", ">">>

\* parse_ents takes the text and the spans from the Doc as to_json does
render(doc) ==
    TplPage(TplTitle(doc.user_data)
              \o <<"<", "d", "i", "v", ">">>
              \o RenderEnts(DocText(doc), to_json(doc).ents, 1, 0)
              \o <<"<", "/", "d", "i", "v", ">">>)

-----------------------------------------------------------------------------
(* The run *)

\* the values of the variables no statement has assigned yet
Unassigned ==
    /\ document = NoDoc
    /\ doc_dict = <<>>
    /\ ents_dict = <<>>
    /\ dumped = <<>>
    /\ html = <<>>

\* lines 123-124: open the file and parse it
Load ==
    /\ pc = "load"
    /\ disk.status = "ok"
    /\ letter' = disk.tree
    /\ pc' = "extract"
    /\ steps' = Append(steps, "load")
    /\ UNCHANGED <<disk, transcription, extracted, document, doc_dict, ents_dict,
                   dumped, html, output_file, before, writes>>

\* lines 123-124: the file is missing or is not UTF-8: open / the parser raises
LoadFault ==
    /\ pc = "load"
    /\ disk.status # "ok"
    /\ pc' = "fault"
    /\ UNCHANGED <<disk, letter, transcription, extracted, document, doc_dict,
                   ents_dict, dumped, html, output_file, before, writes, steps>>

\* line 147: transcription = letter.find(type="transcription").text
Extract ==
    /\ pc = "extract"
    /\ find(letter, "transcription") # 0
    /\ transcription' = text(letter, find(letter, "transcription"))
    /\ extracted' = transcription'
    /\ pc' = "normalize"
    /\ steps' = Append(steps, "extract")
    /\ UNCHANGED <<disk, letter, document, doc_dict, ents_dict, dumped, html,
                   output_file, before, writes>>

\* None is passed on as an empty transcription instead of raising
ExtractFault_passes ==
    /\ pc = "extract"
    /\ find(letter, "transcription") = 0
    /\ transcription' = <<>>
    /\ extracted' = <<>>
    /\ pc' = "normalize"
    /\ steps' = Append(steps, "extract")
    /\ UNCHANGED <<disk, letter, document, doc_dict, ents_dict, dumped, html,
                   output_file, before, writes>>

\* line 147: find returned None, and None has no attribute text
ExtractFault ==
    /\ pc = "extract"
    /\ find(letter, "transcription") = 0
    /\ pc' = "fault"
    /\ UNCHANGED <<disk, letter, transcription, extracted, document, doc_dict,
                   ents_dict, dumped, html, output_file, before, writes, steps>>

\* line 169: transcription = transcription.replace("& ", "and ")
Normalize ==
    /\ pc = "normalize"
    /\ transcription' = normalize(transcription)
    /\ pc' = "load_model"
    /\ steps' = Append(steps, "normalize")
    /\ UNCHANGED <<disk, letter, extracted, document, doc_dict, ents_dict, dumped,
                   html, output_file, before, writes>>

\* lines 200-202: the language model is imported and loaded
LoadModel ==
    /\ pc = "load_model"
    /\ pc' = "annotate"
    /\ steps' = Append(steps, "load_model")
    /\ UNCHANGED <<disk, letter, transcription, extracted, document, doc_dict,
                   ents_dict, dumped, html, output_file, before, writes>>

\* lines 200-202: the package en_core_web_sm is not installed: import raises
LoadModelFault ==
    /\ pc = "load_model"
    /\ pc' = "fault"
    /\ UNCHANGED <<disk, letter, transcription, extracted, document, doc_dict,
                   ents_dict, dumped, html, output_file, before, writes, steps>>

\* the text as extracted, not the normalized one, is given to the model
Annotate_raw ==
    /\ pc = "annotate"
    /\ \E ents \in EntSeqs(Tokenize(extracted)) :
          document' = [tokens |-> Tokenize(extracted),
                       ents |-> ents,
                       user_data |-> <<>>]
    /\ pc' = "to_json"
    /\ steps' = Append(steps, "annotate")
    /\ UNCHANGED <<disk, letter, transcription, extracted, doc_dict, ents_dict,
                   dumped, html, output_file, before, writes>>

\* line 246: document = nlp(transcription); the model predicts the spans
Annotate ==
    /\ pc = "annotate"
    /\ \E ents \in EntSeqs(Tokenize(transcription)) :
          document' = [tokens |-> Tokenize(transcription),
                       ents |-> ents,
                       user_data |-> <<>>]
    /\ pc' = "to_json"
    /\ steps' = Append(steps, "annotate")
    /\ UNCHANGED <<disk, letter, transcription, extracted, doc_dict, ents_dict,
                   dumped, html, output_file, before, writes>>

\* line 246: the model raises (a text longer than nlp.max_length, no memory)
AnnotateFault ==
    /\ pc = "annotate"
    /\ pc' = "fault"
    /\ UNCHANGED <<disk, letter, transcription, extracted, document, doc_dict,
                   ents_dict, dumped, html, output_file, before, writes, steps>>

\* line 298: doc_dict = document.to_json()
ToJson ==
    /\ pc = "to_json"
    /\ doc_dict' = to_json(document)
    /\ pc' = "filter"
    /\ steps' = Append(steps, "to_json")
    /\ UNCHANGED <<disk, letter, transcription, extracted, document, ents_dict,
                   dumped, html, output_file, before, writes>>

\* line 306: ents_dict = {... if key == "ents"}
Filter ==
    /\ pc = "filter"
    /\ ents_dict' = entsOnly(doc_dict)
    /\ pc' = "dumps"
    /\ steps' = Append(steps, "filter")
    /\ UNCHANGED <<disk, letter, transcription, extracted, document, doc_dict,
                   dumped, html, output_file, before, writes>>

\* the run goes on to the write without rendering
Dumps_skips ==
    /\ pc = "dumps"
    /\ dumped' = dumps(ents_dict)
    /\ pc' = "write"
    /\ steps' = Append(steps, "dumps")
    /\ UNCHANGED <<disk, letter, transcription, extracted, document, doc_dict,
                   ents_dict, html, output_file, before, writes>>

\* line 317: json.dumps(ents_dict)
Dumps ==
    /\ pc = "dumps"
    /\ dumped' = dumps(ents_dict)
    /\ pc' = "render"
    /\ steps' = Append(steps, "dumps")
    /\ UNCHANGED <<disk, letter, transcription, extracted, document, doc_dict,
                   ents_dict, html, output_file, before, writes>>

\* lines 355-360: the title is set, then html = displacy.render(...)
\* (the render of line 333 returns a string that is dropped)
Render ==
    /\ pc = "render"
    /\ document' = [document EXCEPT !.user_data = Title]
    /\ html' = render(document')
    /\ pc' = "write"
    /\ steps' = Append(steps, "render")
    /\ UNCHANGED <<disk, letter, transcription, extracted, doc_dict, ents_dict,
                   dumped, output_file, before, writes>>

\* the output file is opened for writing before the html is rendered, and
\* the render raises: the file is left empty
RenderFault_opened ==
    /\ pc = "render"
    /\ document' = [document EXCEPT !.user_data = Title]
    /\ output_file' = [exists |-> TRUE, content |-> <<>>]
    /\ pc' = "fault"
    /\ UNCHANGED <<disk, letter, transcription, extracted, doc_dict, ents_dict,
                   dumped, html, before, writes, steps>>

\* lines 355-360: the title is set, then displacy.render raises
RenderFault ==
    /\ pc = "render"
    /\ document' = [document EXCEPT !.user_data = Title]
    /\ pc' = "fault"
    /\ UNCHANGED <<disk, letter, transcription, extracted, doc_dict, ents_dict,
                   dumped, html, output_file, before, writes, steps>>

\* the file opened with "a": the html is added to what the file held
Write_append ==
    /\ pc = "write"
    /\ output_file' = [exists |-> TRUE, content |-> output_file.content \o html]
    /\ writes' = writes + 1
    /\ pc' = "done"
    /\ steps' = Append(steps, "write")
    /\ UNCHANGED <<disk, letter, transcription, extracted, document, doc_dict,
                   ents_dict, dumped, html, before>>

\* line 363: output_file.open("w", encoding="utf-8").write(html)
Write ==
    /\ pc = "write"
    /\ output_file' = [exists |-> TRUE, content |-> html]
    /\ writes' = writes + 1
    /\ pc' = "done"
    /\ steps' = Append(steps, "write")
    /\ UNCHANGED <<disk, letter, transcription, extracted, document, doc_dict,
                   ents_dict, dumped, html, before>>

\* line 363: open raises (no directory ../results, no permission)
WriteFault ==
    /\ pc = "write"
    /\ pc' = "fault"
    /\ UNCHANGED <<disk, letter, transcription, extracted, document, doc_dict,
                   ents_dict, dumped, html, output_file, before, writes, steps>>

-----------------------------------------------------------------------------
(* A whole run *)

Absent == [exists |-> FALSE, content |-> <<>>]
OldContent == <<"o", "l", "d">>

Init ==
    /\ pc = "load"
    /\ \/ disk \in {[status |-> st, tree |-> <<>>] : st \in {"missing", "undecodable"}}
       \/ \E n \in 1..MaxNodes : \E t \in TreesOfSize(n) :
              disk = [status |-> "ok", tree |-> t]
    /\ letter = <<>>
    /\ transcription = <<>>
    /\ extracted = <<>>
    /\ Unassigned
    /\ output_file \in {Absent, [exists |-> TRUE, content |-> OldContent]}
    /\ before = output_file
    /\ writes = 0
    /\ steps = <<>>

Next ==
    \/ Load \/ LoadFault
    \/ Extract \/ ExtractFault
    \/ Normalize
    \/ LoadModel \/ LoadModelFault
    \/ Annotate \/ AnnotateFault
    \/ ToJson
    \/ Filter
    \/ Dumps
    \/ Render \/ RenderFault
    \/ Write \/ WriteFault

Spec == Init /\ [][Next]_vars

-----------------------------------------------------------------------------
(* The normalizer alone: the run stands before line 169, the transcription *)
(* being any string of up to MaxLen characters, or the sample sentence.    *)

InitNormalize ==
    /\ pc = "normalize"
    /\ transcription \in Strings(MaxLen) \cup {Sample}
    /\ extracted = transcription
    /\ letter = FlatLetter(transcription)
    /\ disk = [status |-> "ok", tree |-> letter]
    /\ Unassigned
    /\ output_file = Absent
    /\ before = output_file
    /\ writes = 0
    /\ steps = <<"load", "extract">>

NextNormalize == Normalize

SpecNormalize == InitNormalize /\ [][NextNormalize]_vars

(* The extractor alone: the run stands before line 147 with any tree of up *)
(* to MaxTreeNodes nodes.                                                  *)

InitExtract ==
    /\ pc = "extract"
    /\ \E n \in 1..MaxTreeNodes : letter \in TreesOfSize(n)
    /\ disk = [status |-> "ok", tree |-> letter]
    /\ transcription = <<>>
    /\ extracted = <<>>
    /\ Unassigned
    /\ output_file = Absent
    /\ before = output_file
    /\ writes = 0
    /\ steps = <<"load">>

NextExtract == Extract \/ ExtractFault

SpecExtract == InitExtract /\ [][NextExtract]_vars

-----------------------------------------------------------------------------
(* Properties of the normalizer (SpecNormalize) *)

Normalized == pc = "load_model"

\* C1: normalization is idempotent: normalizing the normalized transcription
\* again gives the same string, normalize(normalize(S)) = normalize(S).
C1_Idempotent ==
    Normalized => /\ normalize(transcription) = transcription
                  /\ normalize(normalize(extracted)) = normalize(extracted)

C1_Witness ==
    /\ Normalized
    /\ Count(extracted, Amp) >= 2
    /\ transcription # extracted

\* C2: after one normalization pass the transcription holds no "& ", also
\* when the input held adjacent or repeated ampersands ("&& ", "& & ").
C2_NoPatternLeft == Normalized => ~Contains(transcription, Amp)

C2_Witness ==
    /\ Normalized
    /\ \/ Contains(extracted, <<"&", "&", " ">>)
       \/ Contains(extracted, <<"&", " ", "&", " ">>)
    /\ Contains(transcription, <<"&">>)

\* C3: normalizing "I have & you have" yields exactly "I have and you have".
C3_Sample == (Normalized /\ extracted = Sample) => transcription = SampleNormalized

C3_Witness == Normalized /\ extracted = Sample

-----------------------------------------------------------------------------
(* Properties of the extractor (SpecExtract) *)

\* the elements carrying type="transcription"
Matches(t) == {i \in 1..Len(t) : t[i].kind = "tag" /\ t[i].type = "transcription"}

\* the parent of node j (j > 1): the nearest node before it that is less deep
ParentOf(t, j) == CHOOSE k \in 1..(j - 1) :
                      /\ t[k].depth < t[j].depth
                      /\ \A m \in (k + 1)..(j - 1) : t[m].depth >= t[j].depth

RECURSIVE IsDescendant(_, _, _)
IsDescendant(t, j, i) ==
    /\ t[j].depth > 0
    /\ ParentOf(t, j) = i \/ IsDescendant(t, ParentOf(t, j), i)

\* the strings of the text nodes below node i, first to last
RECURSIVE TextBelow(_, _, _)
TextBelow(t, i, j) ==
    IF j > Len(t) THEN <<>>
    ELSE (IF t[j].kind = "text" /\ IsDescendant(t, j, i) THEN t[j].string ELSE <<>>)
             \o TextBelow(t, i, j + 1)

\* C4: when exactly one element carries type="transcription", extraction
\* returns the text of that element and of all its nested descendants, in
\* document order, and nothing from outside that subtree.
C4_ExtractSubtreeText ==
    (pc = "normalize" /\ Cardinality(Matches(letter)) = 1) =>
        LET m == CHOOSE i \in Matches(letter) : TRUE
        IN  transcription = TextBelow(letter, m, 1)

C4_Witness ==
    /\ pc = "normalize"
    /\ Cardinality(Matches(letter)) = 1
    /\ LET m == CHOOSE i \in Matches(letter) : TRUE
       IN  /\ \E j \in 1..Len(letter) :
                 /\ letter[j].kind = "text"
                 /\ IsDescendant(letter, j, m)
                 /\ letter[j].depth > letter[m].depth + 1
           /\ \E j \in 1..Len(letter) :
                 letter[j].kind = "text" /\ ~IsDescendant(letter, j, m)
    /\ transcription # <<>>

-----------------------------------------------------------------------------
(* Properties of a whole run (Spec) *)

Completed(step) == \E i \in 1..Len(steps) : steps[i] = step

\* C5: when the parsed tree holds no element with type="transcription",
\* the run ends in a fault at the extraction step: no transcription is
\* passed on and no later step (normalization, annotation, JSON export,
\* HTML render, file write) executes.
C5_NoMatchFaults ==
    (Completed("load") /\ Matches(letter) = {} /\ pc # "extract") =>
        /\ pc = "fault"
        /\ steps = <<"load">>
        /\ transcription = <<>>
        /\ Unassigned
        /\ writes = 0
        /\ output_file = before

C5_Witness ==
    /\ pc = "fault"
    /\ Completed("load")
    /\ Matches(letter) = {}
    /\ \E j \in 1..Len(letter) : letter[j].kind = "text"

(* Reading the serialized mapping back, character by character.  An       *)
(* object is read as the sequence of its members [key, value], an array   *)
(* as the sequence of its elements; each reader returns the value and the *)
(* position after it.                                                      *)

IsDigit(c) == \E d \in 1..10 : Digit[d] = c
DigitVal(c) == (CHOOSE d \in 1..10 : Digit[d] = c) - 1

RECURSIVE ReadInt(_, _, _)
ReadInt(s, i, acc) ==
    IF i <= Len(s) /\ IsDigit(s[i]) THEN ReadInt(s, i + 1, 10 * acc + DigitVal(s[i]))
    ELSE [val |-> acc, next |-> i]

ReadStr(s, i) ==
    LET close == CHOOSE j \in (i + 1)..Len(s) :
                     s[j] = "\"" /\ \A k \in (i + 1)..(j - 1) : s[k] # "\""
    IN  [val |-> SubSeq(s, i + 1, close - 1), next |-> close + 1]

RECURSIVE ReadValue(_, _)
RECURSIVE ReadMembers(_, _)
RECURSIVE ReadElements(_, _)

ReadValue(s, i) ==
    CASE s[i] = "{" ->
            IF s[i + 1] = "}" THEN [val |-> <<>>, next |-> i + 2]
            ELSE ReadMembers(s, i + 1)
      [] s[i] = "[" ->
            IF s[i + 1] = "]" THEN [val |-> <<>>, next |-> i + 2]
            ELSE ReadElements(s, i + 1)
      [] s[i] = "\"" -> ReadStr(s, i)
      [] OTHER -> ReadInt(s, i, 0)

\* key: value, key: value ... }
ReadMembers(s, i) ==
    LET key == ReadStr(s, i)
        value == ReadValue(s, key.next + Len(Colon))
        member == [key |-> key.val, value |-> value.val]
    IN  IF s[value.next] = "}" THEN [val |-> <<member>>, next |-> value.next + 1]
        ELSE LET more == ReadMembers(s, value.next + Len(Comma))
             IN  [val |-> <<member>> \o more.val, next |-> more.next]

\* value, value ... ]
ReadElements(s, i) ==
    LET value == ReadValue(s, i)
    IN  IF s[value.next] = "]" THEN [val |-> <<value.val>>, next |-> value.next + 1]
        ELSE LET more == ReadElements(s, value.next + Len(Comma))
             IN  [val |-> <<value.val>> \o more.val, next |-> more.next]

loads(s) == ReadValue(s, 1).val

Keys(obj) == [i \in 1..Len(obj) |-> obj[i].key]

\* the span of an entity, as the Doc holds it and as the mapping spells it
SpanRecord(sp) ==
    <<[key |-> Spell["start"], value |-> sp.start_char],
      [key |-> Spell["end"], value |-> sp.end_char],
      [key |-> Spell["label"], value |-> Spell[sp.label_]]>>

\* C6: end to end, the `ents` entry of the serialized mapping equals the
\* sequence of spans the annotator returned: same spans, same order, none
\* added, dropped, merged or altered, duplicates and overlaps included.
C6_EntsRoundTrip ==
    Completed("dumps") =>
        LET top == loads(dumped)
        IN  /\ Keys(top) = <<Spell["ents"]>>
            /\ Len(top[1].value) = Len(document.ents)
            /\ \A i \in 1..Len(document.ents) :
                  top[1].value[i] = SpanRecord(document.ents[i])

C6_Witness ==
    /\ Completed("dumps")
    /\ Len(document.ents) = 2
    /\ \/ document.ents[1] = document.ents[2]
       \/ /\ document.ents[2].start_char < document.ents[1].start_char
          /\ document.ents[1].start_char < document.ents[2].end_char

\* the text of the i-th entity: the characters between its offsets
EntText(i) ==
    SubSeq(DocText(document), document.ents[i].start_char + 1, document.ents[i].end_char)

Special == {"&", "<", ">", "\""}
HasSpecial(s) == \E k \in 1..Len(s) : s[k] \in Special

\* C7 as stated: the HTML contains the literal text of every entity, also
\* when that text holds '&' or '<'.
C7_LiteralTextInHtml ==
    Completed("render") =>
        \A i \in 1..Len(document.ents) : Contains(html, EntText(i))

\* C7, amended: the HTML contains the text of every entity with & < > "
\* written &amp; &lt; &gt; &quot;, hence its literal text when it holds
\* none of these characters.
C7_EscapedTextInHtml ==
    Completed("render") =>
        \A i \in 1..Len(document.ents) :
            /\ Contains(html, escape_html(EntText(i)))
            /\ ~HasSpecial(EntText(i)) => Contains(html, EntText(i))

C7_Witness ==
    /\ Completed("render")
    /\ \E i \in 1..Len(document.ents) :
          HasSpecial(EntText(i)) /\ ~Contains(html, EntText(i))
    /\ \E i \in 1..Len(document.ents) : ~HasSpecial(EntText(i))

\* C8: the output file is written at most once, the write is the last step
\* of the run, and after a run that succeeds the file holds exactly the
\* rendered html, whatever it held before.
C8_WrittenOnceAtEnd ==
    /\ writes <= 1
    /\ writes = 1 => pc = "done" /\ steps[Len(steps)] = "write"
    /\ writes = 0 => output_file = before
    /\ pc = "done" => /\ writes = 1
                      /\ output_file = [exists |-> TRUE, content |-> html]

C8_Witness ==
    /\ pc = "done"
    /\ before = [exists |-> TRUE, content |-> OldContent]
    /\ output_file.content = html
    /\ document.ents # <<>>

\* the statements of the script and the step of the pipeline each belongs to
Program == <<"load", "extract", "normalize", "load_model", "annotate",
             "to_json", "filter", "dumps", "render", "write">>

StageOf ==
    [load |-> "load", extract |-> "extract", normalize |-> "normalize",
     load_model |-> "annotate", annotate |-> "annotate",
     to_json |-> "export", filter |-> "export", dumps |-> "export",
     render |-> "export", write |-> "export"]

Stages == <<"load", "extract", "normalize", "annotate", "export">>
StageNo(st) == CHOOSE n \in 1..Len(Stages) : Stages[n] = st

\* C9: the steps run in the fixed order load, extract, normalize, annotate,
\* export, each after the one before it has completed, none more than
\* once, none retried or skipped.
C9_Sequential ==
    /\ Len(steps) <= Len(Program)
    /\ \A i \in 1..Len(steps) : steps[i] = Program[i]
    /\ \A i \in 1..(Len(steps) - 1) :
          StageNo(StageOf[steps[i + 1]]) - StageNo(StageOf[steps[i]]) \in {0, 1}
    /\ pc \notin {"fault", "done"} => pc = Program[Len(steps) + 1]
    /\ pc = "done" <=> steps = Program

C9_Witness ==
    /\ pc = "done"
    /\ [i \in 1..Len(steps) |-> StageOf[steps[i]]] =
          <<"load", "extract", "normalize", "annotate", "annotate",
            "export", "export", "export", "export", "export">>

\* C10: the filtered mapping holds the key `ents` and no other, whatever
\* other keys the document dictionary holds; its value is the dictionary's,
\* unchanged, and every entity record carries start, end and label.
C10_OnlyEnts ==
    Completed("filter") =>
        /\ DOMAIN ents_dict = {"ents"}
        /\ ents_dict["ents"] = doc_dict["ents"]
        /\ \A i \in 1..Len(ents_dict["ents"]) :
              /\ DOMAIN ents_dict["ents"][i] = {"start", "end", "label"}
              /\ ents_dict["ents"][i].start = document.ents[i].start_char
              /\ ents_dict["ents"][i].end = document.ents[i].end_char
              /\ ents_dict["ents"][i].label = document.ents[i].label_

C10_Witness ==
    /\ Completed("filter")
    /\ {"text", "tokens"} \subseteq DOMAIN doc_dict
    /\ doc_dict["text"] # <<>>
    /\ Len(ents_dict["ents"]) = 2

\* C11: the transcription is changed once, by the normalization step, and
\* passed on unchanged: the annotator is given normalize(extracted text),
\* and the text of the annotated document, which both exporters use and
\* the span offsets refer to, is that same string.
C11_TextPassedOn ==
    /\ (Completed("extract") /\ ~Completed("normalize")) => transcription = extracted
    /\ Completed("normalize") => transcription = normalize(extracted)
    /\ Completed("annotate") =>
          /\ DocText(document) = transcription
          /\ \A i \in 1..Len(document.ents) :
                /\ document.ents[i].end_char <= Len(transcription)
                /\ EntText(i) = SubSeq(transcription, document.ents[i].start_char + 1,
                                       document.ents[i].end_char)
    /\ Completed("to_json") => doc_dict["text"] = transcription
    /\ Completed("render") =>
          Contains(html, Fragments(SubSeq(transcription, 1,
                                          IF document.ents = <<>> THEN Len(transcription)
                                          ELSE document.ents[1].start_char)))

C11_Witness ==
    /\ Completed("render")
    /\ transcription # extracted
    /\ document.ents # <<>>
    /\ document.ents[1].start_char > 0

-----------------------------------------------------------------------------
(* The reference pass (SpecNormalize): the characters are visited from the *)
(* left; an ampersand that a space follows is written "and" and the space  *)
(* after it is copied like every other character.                          *)

AmpAt(s, i) == s[i] = "&" /\ i < Len(s) /\ s[i + 1] = " "

RECURSIVE OnePass(_, _)
OnePass(s, i) ==
    IF i > Len(s) THEN <<>>
    ELSE (IF AmpAt(s, i) THEN <<"a", "n", "d">> ELSE <<s[i]>>) \o OnePass(s, i + 1)

\* the characters of s that are no ampersand before a space, in order
RECURSIVE Others(_, _)
Others(s, i) ==
    IF i > Len(s) THEN <<>>
    ELSE (IF AmpAt(s, i) THEN <<>> ELSE <<s[i]>>) \o Others(s, i + 1)

\* out, the result for s, with the "and" of every replaced ampersand taken out
RECURSIVE WithoutAnds(_, _, _)
WithoutAnds(out, s, i) ==
    IF i > Len(s) THEN <<>>
    ELSE IF AmpAt(s, i) THEN WithoutAnds(SubSeq(out, 4, Len(out)), s, i + 1)
         ELSE <<out[1]>> \o WithoutAnds(SubSeq(out, 2, Len(out)), s, i + 1)

\* C12: normalization equals one left-to-right pass that replaces each
\* "& " by "and " and copies every other character: an ampersand before a
\* non-space or at the end is kept, the other characters keep their order,
\* and the result is 2 * (occurrences of "& ") longer than the input.
C12_ReferencePass ==
    Normalized =>
        /\ transcription = OnePass(extracted, 1)
        /\ Len(transcription) = Len(extracted) + 2 * Count(extracted, Amp)
        /\ WithoutAnds(transcription, extracted, 1) = Others(extracted, 1)
        /\ Count(transcription, <<"&">>) = Count(extracted, <<"&">>) - Count(extracted, Amp)

C12_Witness ==
    /\ Normalized
    /\ Count(extracted, Amp) >= 1
    /\ extracted[Len(extracted)] = "&"
    /\ \E i \in 1..(Len(extracted) - 1) : extracted[i] = "&" /\ extracted[i + 1] # " "

-----------------------------------------------------------------------------
(* Faults before the write (Spec) *)

\* the statement the run faulted at
FaultedAt == Program[Len(steps) + 1]

\* C13: when a step before the file write fails (the input file is missing
\* or cannot be decoded, no transcription element is found, annotation
\* fails, rendering fails), the run stops there and the output file is as
\* it was before the run: not created, not truncated, not partly written.
C13_FaultLeavesFile ==
    (pc = "fault" /\ FaultedAt # "write") =>
        /\ output_file = before
        /\ writes = 0
        /\ html = <<>>
        /\ FaultedAt \in {"load", "extract", "load_model", "annotate", "render"}
        /\ \A i \in 1..Len(steps) : steps[i] = Program[i]

C13_Witness ==
    /\ pc = "fault"
    /\ FaultedAt = "render"
    /\ before = [exists |-> TRUE, content |-> OldContent]
    /\ output_file = before
    /\ document.ents # <<>>

=============================================================================
